---------------------------- MODULE Spec2Model ----------------------------
(***************************************************************************)
(* A model of the ClickHouse <-> flat file integration backend:            *)
(*   clickhouse.py    build_query, export_to_file                          *)
(*   file_handler.py  import_to_clickhouse, preview_data                   *)
(*   app.py           start_ingestion, get_job_status, process_ingestion,  *)
(*                    preview_data                                         *)
(*                                                                         *)
(* Seven specifications share the variables:                               *)
(*   PlanSpec    build_query applied to bounded inputs                     *)
(*   ImportSpec  import_to_clickhouse, one step per statement group        *)
(*   ExportSpec  export_to_file, one step per statement group              *)
(*   FileSpec    ImportSpec, or preview_data of a file step by step        *)
(*   RoundTripSpec  export_to_file, then import_to_clickhouse of the file  *)
(*               it wrote, through the csv writer and reader               *)
(*   Spec        the job registry of app.py: the event loop's handlers and *)
(*               the background tasks, interleaved statement by statement  *)
(*   FairSpec    Spec with the scheduling the server guarantees            *)
(* In Spec a job's transfer is one step, the whole engine call run on the  *)
(* job's own session and sink (RunImport, RunExport); the other statements *)
(* of process_ingestion, which write the shared registry, are steps of     *)
(* their own.  Python lists are sequences indexed from 1; a dict is a      *)
(* function whose domain is its key set; None is the record None.          *)
(***************************************************************************)
EXTENDS Integers, Sequences, FiniteSets, TLC

VARIABLES
    plan,            \* build_query: its arguments and what it returned or raised
    imp,             \* import_to_clickhouse: the frame of one call, its file and its database
    exp,             \* export_to_file: the frame of one call, its database and its file
    preview,         \* file_handler.preview_data: the frame of one call and its file
    ingestion_jobs,  \* app.py line 49: job id -> the job's dict
    loop,            \* the event loop: the request handler it is running
    tasks,           \* job id -> the frame of its process_ingestion background task
    sinks,           \* job id -> what the job's transfer put into its table or file
    returned         \* the job ids start_ingestion has returned, in order

engines == <<plan, imp, exp, preview>>

registry == <<ingestion_jobs, loop, tasks, sinks, returned>>

vars == <<plan, imp, exp, preview, ingestion_jobs, loop, tasks, sinks, returned>>

----------------------------------------------------------------------------
(* Bounds of the model *)

MaxTables == 2       \* longest list of selected tables
MaxRecords == 3      \* most records in a source file
MaxBatch == 2        \* largest batch_size an import is called with
MaxJobs == 2         \* most jobs submitted in one run of the server
MaxRows == 2         \* most rows of a table exported and imported again
MaxText == 3         \* most characters in the cells of such a table

\* batch_size = 10000 (file_handler.py line 83), the batch size of every job's
\* import, scaled down so that a file of MaxRecords rows spans several batches
DefaultBatchSize == 2

----------------------------------------------------------------------------
(* Python values *)

None == [tag |-> "None"]

EmptyDict == [k \in {} |-> 0]

\* dict.get(key, default)
Get(d, key, default) == IF key \in DOMAIN d THEN d[key] ELSE default

\* the truth value of an Optional[dict]: None and {} are false
Truthy(v) == v # None /\ v # EmptyDict

\* Optional[int] = None: the absent limit, kept apart from every row count
NoLimit == -1

\* the truth value of an Optional[int]: None and 0 are false
TruthyInt(n) == n # NoLimit /\ n # 0

Range(s) == {s[i] : i \in DOMAIN s}

\* [f(x) for x in s]
RECURSIVE SeqSum(_)
SeqSum(s) == IF s = <<>> THEN 0 ELSE Head(s) + SeqSum(Tail(s))

RECURSIVE Flatten(_)
Flatten(ss) == IF ss = <<>> THEN <<>> ELSE Head(ss) \o Flatten(Tail(ss))

\* sequences over S of length lo..hi
SeqsOf(S, lo, hi) == UNION {[1..n -> S] : n \in lo..hi}

----------------------------------------------------------------------------
(* clickhouse.py: build_query *)

\* The database catalog: the columns each table really has.  build_query
\* itself never sees it (it receives only names).
TableNames == {"orders", "customers", "items"}

Catalog(t) ==
    CASE t = "orders"    -> <<"id", "cust_id">>
      [] t = "customers" -> <<"id", "name">>
      [] OTHER           -> <<"id", "sku">>

\* f"{table}.{col}" and f"{table}.*", kept as a pair instead of a string
ColumnRef(table, col) == [table |-> table, column |-> col]

Star == [table |-> "", column |-> "*"]

\* ", ".join([f"{table}.{col}" for col in columns])
QualifiedColumns(table, columns) ==
    [i \in 1..Len(columns) |-> ColumnRef(table, columns[i])]

\* lines 54-68: the single table case
SingleTableQuery(tables, columns_map, limit) ==
    LET table == tables[1]
        columns == Get(columns_map, table, <<>>)
    IN  [select |-> IF columns = <<>> THEN <<Star>>
                    ELSE QualifiedColumns(table, columns),
         from   |-> table,
         joins  |-> <<>>,
         limit  |-> IF TruthyInt(limit) THEN limit ELSE NoLimit]

\* lines 82-87: the columns of the tables after the first; a table with no
\* selected column adds nothing to the SELECT list
RECURSIVE OtherColumns(_, _)
OtherColumns(others, columns_map) ==
    IF others = <<>> THEN <<>>
    ELSE LET table_columns == Get(columns_map, Head(others), <<>>)
         IN  (IF table_columns # <<>>
              THEN QualifiedColumns(Head(others), table_columns)
              ELSE <<>>)
             \o OtherColumns(Tail(others), columns_map)

\* the guard off by one: the last condition is never used
HasConditionBeforeLast(i, join_conditions) == i + 1 < Len(join_conditions)

\* line 97: the guard under which tables[1:][i] gets a JOIN clause (i from 0)
HasCondition(i, join_conditions) == i < Len(join_conditions)

\* lines 93-99: one JOIN per later table that has a condition at its position;
\* i is enumerate's index of Head(others)
RECURSIVE JoinClauses(_, _, _)
JoinClauses(others, i, join_config) ==
    IF others = <<>> THEN <<>>
    ELSE LET join_type == Get(join_config, "join_type", "INNER JOIN")
             join_conditions == Get(join_config, "conditions", <<>>)
         IN  (IF HasCondition(i, join_conditions)
              THEN <<[type |-> join_type, table |-> Head(others),
                      on |-> join_conditions[i + 1]]>>
              ELSE <<>>)
             \o JoinClauses(Tail(others), i + 1, join_config)

\* lines 72-104: the multi table case
JoinQuery(tables, columns_map, join_config, limit) ==
    LET primary_table == tables[1]
        primary_columns == Get(columns_map, primary_table, <<>>)
    IN  [select |-> (IF primary_columns = <<>>
                     THEN <<ColumnRef(primary_table, "*")>>
                     ELSE QualifiedColumns(primary_table, primary_columns))
                    \o OtherColumns(Tail(tables), columns_map),
         from   |-> primary_table,
         joins  |-> JoinClauses(Tail(tables), 0, join_config),
         limit  |-> IF TruthyInt(limit) THEN limit ELSE NoLimit]

Returned(value) == [ok |-> TRUE, value |-> value]

Raised(message) == [ok |-> FALSE, error |-> message]

\* "if join_config is not None:", true for the empty dict
JoinConfiguredNotNone(join_config) == join_config # None

\* line 71: "if join_config:", false for None and for the empty dict
JoinConfigured(join_config) == Truthy(join_config)

\* lines 46-106
build_query(tables, columns_map, join_config, limit) ==
    IF Len(tables) = 1
    THEN Returned(SingleTableQuery(tables, columns_map, limit))
    ELSE IF JoinConfigured(join_config)
         THEN IF tables = <<>>
              THEN Raised("list index out of range")      \* tables[0], line 72
              ELSE Returned(JoinQuery(tables, columns_map, join_config, limit))
         ELSE Raised("Multiple tables selected but no join configuration provided")

\* The arguments build_query is applied to
TableLists == SeqsOf(TableNames, 0, MaxTables)

Projections(t) ==
    {<<>>, <<Catalog(t)[1]>>, <<Catalog(t)[2], Catalog(t)[1]>>, <<"zip">>}

ColumnsMaps ==
    UNION {{cm \in [D -> UNION {Projections(t) : t \in TableNames}] :
                \A t \in D : cm[t] \in Projections(t)} : D \in SUBSET TableNames}

Conditions == <<"orders.cust_id = customers.id", "orders.id = items.id">>

JoinConfigs ==
    {None, EmptyDict,
     [join_type |-> "LEFT JOIN"],
     [conditions |-> <<>>],
     [conditions |-> SubSeq(Conditions, 1, 1)],
     [join_type |-> "LEFT JOIN", conditions |-> Conditions]}

Limits == {NoLimit, 0, 100}

PlanIdle == [pc |-> "idle"]

PlanCalls ==
    {[pc |-> "call", tables |-> tables, columns_map |-> columns_map,
      join_config |-> join_config, limit |-> limit] :
        tables \in TableLists, columns_map \in ColumnsMaps,
        join_config \in JoinConfigs, limit \in Limits}

\* one call of build_query
BuildQuery ==
    /\ plan.pc = "call"
    /\ plan' = [plan EXCEPT !.pc = "done"] @@
               [result |-> build_query(plan.tables, plan.columns_map,
                                       plan.join_config, plan.limit)]
    /\ UNCHANGED <<imp, exp, preview, registry>>

----------------------------------------------------------------------------
(* file_handler.py: import_to_clickhouse *)

ImportIdle == [pc |-> "idle"]

\* The source file as csv.reader delivers it: a sequence of records, each a
\* sequence of text cells.  Record i is a header (has_header, i = 1), a data
\* row of two cells, or the one short row of the file.
HeaderRecord == <<"id", "name">>

DataRecord(i) == <<ToString(i), "n" \o ToString(i)>>

ShortRecord(i) == <<ToString(i)>>

SourceFile(n, has_header, short) ==
    [i \in 1..n |-> IF has_header /\ i = 1 THEN HeaderRecord
                    ELSE IF i = short THEN ShortRecord(i)
                    ELSE DataRecord(i)]

\* the records after the header: the data rows of the file
DataRows(file, has_header) ==
    IF has_header THEN SubSeq(file, 2, Len(file)) ELSE file

\* [f"col_{i}" for i in range(len(first_row))], line 97
PositionalNames(first_row) ==
    [i \in 1..Len(first_row) |-> "col_" \o ToString(i - 1)]

\* headers.index(col): the first position of col
IndexOf(headers, col) ==
    CHOOSE i \in 1..Len(headers) :
        headers[i] = col /\ \A j \in 1..(i - 1) : headers[j] # col

\* [headers.index(col) for col in selected_columns if col in headers], line 103
RECURSIVE SelectedIndices(_, _)
SelectedIndices(selected_columns, headers) ==
    IF selected_columns = <<>> THEN <<>>
    ELSE (IF Head(selected_columns) \in Range(headers)
          THEN <<IndexOf(headers, Head(selected_columns))>>
          ELSE <<>>)
         \o SelectedIndices(Tail(selected_columns), headers)

\* raise Exception(f"Import to ClickHouse failed: {str(e)}"), line 157
ImportRaise(f, message) ==
    [f EXCEPT !.pc = "raised",
              !.error = "Import to ClickHouse failed: " \o message]

\* lines 88-107: open the file, read the headers, resolve the columns
ReadSchema(f) ==
    IF ~f.readable THEN ImportRaise(f, "No such file or directory")
    ELSE IF f.file = <<>> THEN ImportRaise(f, "")        \* next(reader): StopIteration
    ELSE LET headers == IF f.has_header THEN f.file[1]
                        ELSE PositionalNames(f.file[1])
             column_indices ==
                 IF f.selected_columns # <<>>
                 THEN SelectedIndices(f.selected_columns, headers)
                 ELSE [i \in 1..Len(headers) |-> i]
         IN  [f EXCEPT !.pc = "l112",
                       !.headers = headers,
                       !.column_indices = column_indices,
                       !.column_names =
                           IF f.selected_columns # <<>>
                           THEN [k \in 1..Len(column_indices) |->
                                     headers[column_indices[k]]]
                           ELSE headers]

\* one client.execute call as the session saw it
Call(stmt, columns, rows, ok) ==
    [stmt |-> stmt, columns |-> columns, rows |-> rows, ok |-> ok]

\* the database's message when it rejects the n-th statement of the session
DbError(n) == "DB::Exception in statement " \o ToString(n)

\* lines 110-115: SELECT 1 FROM target_table LIMIT 1; the bare except takes
\* any error of the statement, not only "unknown table", for "absent"
ProbeTable(f) ==
    LET ok == f.table.exists /\ ~f.table.select_denied
    IN  [f EXCEPT !.pc = IF ok THEN "l124" ELSE "l119",
                  !.table_exists = ok,
                  !.calls = Append(@, Call("SELECT", <<>>, <<>>, ok))]

\* `col` String, line 119
StringColumn(col) == [name |-> col, type |-> "String"]

\* lines 117-121: CREATE TABLE with one String column per resolved column;
\* the database rejects the statement for a table that exists
CreateTable(f) ==
    LET column_defs == [k \in 1..Len(f.column_names) |->
                            StringColumn(f.column_names[k])]
        n == Len(f.calls) + 1
    IN  IF f.create_fails \/ f.table.exists
        THEN [ImportRaise(f, DbError(n)) EXCEPT
                  !.calls = Append(@, Call("CREATE", column_defs, <<>>, FALSE))]
        ELSE [f EXCEPT !.pc = "l124",
                       !.table = [exists |-> TRUE, select_denied |-> FALSE,
                                  columns |-> column_defs,
                                  rows |-> <<>>],
                       !.calls = Append(@, Call("CREATE", column_defs, <<>>, TRUE))]

\* lines 124-132: reopen the file and skip the header
OpenReader(f) ==
    [f EXCEPT !.pc = "l134",
              !.total_rows = 0,
              !.batch = <<>>,
              !.pos = IF f.has_header THEN 2 ELSE 1]

\* a batch flushed one row late
BatchFullLate(batch, batch_size) == Len(batch) > batch_size

\* line 142: the batch is full
BatchFull(batch, batch_size) == Len(batch) >= batch_size

\* lines 134-142 and 150: one turn of "for row in reader", up to the test of
\* the batch size; at the end of the file, the test of the remainder
ReadRow(f) ==
    IF f.pos > Len(f.file)
    THEN [f EXCEPT !.pc = IF f.batch # <<>> THEN "l152" ELSE "l155"]
    ELSE LET row == f.file[f.pos]
         IN  IF f.column_indices # <<>>
                /\ \E k \in 1..Len(f.column_indices) : f.column_indices[k] > Len(row)
             THEN ImportRaise(f, "list index out of range")
             ELSE LET filtered_row ==
                          IF f.column_indices # <<>>
                          THEN [k \in 1..Len(f.column_indices) |->
                                    row[f.column_indices[k]]]
                          ELSE row
                      batch == Append(f.batch, filtered_row)
                  IN  [f EXCEPT !.batch = batch,
                                !.pos = @ + 1,
                                !.pc = IF BatchFull(batch, f.batch_size)
                                       THEN "l145" ELSE "l134"]

\* the number of INSERT statements the session has executed
InsertCalls(calls) == Cardinality({i \in 1..Len(calls) : calls[i].stmt = "INSERT"})

\* a rejected INSERT that is swallowed: the loop goes on with the next rows
InsertRejectedSwallowed(f, call) ==
    [f EXCEPT !.pc = "l134", !.calls = Append(@, call), !.batch = <<>>]

\* the except clause reached from a rejected INSERT: the frame after it
InsertRejected(f, call) ==
    [ImportRaise(f, DbError(Len(f.calls) + 1)) EXCEPT !.calls = Append(@, call)]

\* total_rows counting the batches instead of their rows
InsertAcceptedCountingBatches(f, call, next) ==
    [f EXCEPT !.pc = next,
              !.calls = Append(@, call),
              !.table.rows = @ \o f.batch,
              !.total_rows = @ + 1,
              !.batch = <<>>]

\* the statements after a successful client.execute: lines 146-147 (next = "l134")
\* and line 153 (next = "l155")
InsertAccepted(f, call, next) ==
    [f EXCEPT !.pc = next,
              !.calls = Append(@, call),
              !.table.rows = @ \o f.batch,
              !.total_rows = @ + Len(f.batch),
              !.batch = <<>>]

\* lines 144-147 and 151-153: INSERT INTO target_table (columns) VALUES batch
InsertBatch(f, next) ==
    LET rejected == InsertCalls(f.calls) + 1 = f.failing_insert
        call == Call("INSERT", f.column_names, f.batch, ~rejected)
    IN  IF rejected THEN InsertRejected(f, call)
        ELSE InsertAccepted(f, call, next)

\* line 155
ImportReturn(f) == [f EXCEPT !.pc = "returned", !.result = f.total_rows]

\* the frame of a call before its first statement
ImportFrame(file, readable, selected_columns, has_header, batch_size, table, create_fails, failing_insert) ==
    [pc |-> "l88", file |-> file, readable |-> readable,
     selected_columns |-> selected_columns, has_header |-> has_header,
     batch_size |-> batch_size, table |-> table, table0 |-> table,
     create_fails |-> create_fails, failing_insert |-> failing_insert,
     headers |-> <<>>, column_indices |-> <<>>, column_names |-> <<>>,
     table_exists |-> FALSE, total_rows |-> 0, batch |-> <<>>, pos |-> 0,
     calls |-> <<>>, result |-> 0, error |-> ""]

\* one statement group of import_to_clickhouse
ImportStep(f) ==
    CASE f.pc = "l88"  -> ReadSchema(f)
      [] f.pc = "l112" -> ProbeTable(f)
      [] f.pc = "l119" -> CreateTable(f)
      [] f.pc = "l124" -> OpenReader(f)
      [] f.pc = "l134" -> ReadRow(f)
      [] f.pc = "l145" -> InsertBatch(f, "l134")
      [] f.pc = "l152" -> InsertBatch(f, "l155")
      [] f.pc = "l155" -> ImportReturn(f)
      [] OTHER         -> f

ImportDone(f) == f.pc \in {"returned", "raised"}

\* the whole call: the frame import_to_clickhouse ends in
RECURSIVE RunImport(_)
RunImport(f) == IF ImportDone(f) THEN f ELSE RunImport(ImportStep(f))

\* The calls import_to_clickhouse is applied to
Selections ==
    {<<>>, <<"id">>, <<"name", "id">>, <<"zip">>, <<"col_1">>, <<"id", "zip">>}

NoTable ==
    [exists |-> FALSE, select_denied |-> FALSE, columns |-> <<>>, rows |-> <<>>]

ExistingTable(rows) ==
    [exists |-> TRUE, select_denied |-> FALSE,
     columns |-> <<StringColumn("id"), StringColumn("name")>>,
     rows |-> rows]

OldRow == <<"0", "n0">>

\* a table that exists while the probe raises: the SELECT is refused (no
\* privilege on the table) or lost (timeout, connection reset)
DeniedTable(rows) == [ExistingTable(rows) EXCEPT !.select_denied = TRUE]

ImportCalls ==
    {ImportFrame(SourceFile(n, has_header, short), readable, selected_columns,
                 has_header, batch_size, table, create_fails, failing_insert) :
        n \in 0..MaxRecords, has_header \in BOOLEAN, short \in 0..MaxRecords,
        readable \in BOOLEAN, selected_columns \in Selections,
        batch_size \in 1..MaxBatch,
        table \in {NoTable, ExistingTable(<<>>), ExistingTable(<<OldRow>>),
                   DeniedTable(<<OldRow>>)},
        create_fails \in BOOLEAN, failing_insert \in 0..MaxRecords}

ImportAt(label) == imp.pc = label /\ UNCHANGED <<plan, exp, preview, registry>>

ImportReadSchema == ImportAt("l88") /\ imp' = ReadSchema(imp)

ImportProbeTable == ImportAt("l112") /\ imp' = ProbeTable(imp)

ImportCreateTable == ImportAt("l119") /\ imp' = CreateTable(imp)

ImportOpenReader == ImportAt("l124") /\ imp' = OpenReader(imp)

ImportReadRow == ImportAt("l134") /\ imp' = ReadRow(imp)

ImportInsertBatch == ImportAt("l145") /\ imp' = InsertBatch(imp, "l134")

ImportInsertRemainder == ImportAt("l152") /\ imp' = InsertBatch(imp, "l155")

ImportReturns == ImportAt("l155") /\ imp' = ImportReturn(imp)

----------------------------------------------------------------------------
(* file_handler.py: preview_data *)

PreviewIdle == [pc |-> "idle"]

\* raise Exception(f"Failed to preview file data: {str(e)}"), line 74
PreviewRaise(f, message) ==
    [f EXCEPT !.pc = "raised",
              !.error = "Failed to preview file data: " \o message]

\* {names[i]: cells[i] for i in range(len(cells))}, lines 65 and 67: of two
\* equal names the later one keeps its cell
RowDict(names, cells) ==
    [name \in {names[i] : i \in 1..Len(cells)} |->
        cells[CHOOSE i \in 1..Len(cells) :
                  names[i] = name /\ \A j \in (i + 1)..Len(cells) : names[j] # name]]

\* a reader that is not rewound: the first record is lost as data
AfterHeadersNoSeek(has_header) == 2

\* lines 41-45: the next record of the reader after the headers were read;
\* csvfile.seek(0) takes it back to the first record of a file without header
AfterHeaders(has_header) == IF has_header THEN 2 ELSE 1

\* lines 36-53: open the file, read the headers, rewind a file without
\* header to its first record, resolve the columns.  column_indices is <<>>
\* both for None and for []: line 63 tests its truth only.
PreviewSchema(f) ==
    IF ~f.readable THEN PreviewRaise(f, "No such file or directory")
    ELSE IF f.file = <<>> THEN PreviewRaise(f, "")       \* next(reader): StopIteration
    ELSE LET headers == IF f.has_header THEN f.file[1]
                        ELSE PositionalNames(f.file[1])
             column_indices ==
                 IF f.selected_columns # <<>>
                 THEN SelectedIndices(f.selected_columns, headers)
                 ELSE <<>>
         IN  [f EXCEPT !.pc = "l59",
                       !.headers = headers,
                       !.pos = AfterHeaders(f.has_header),
                       !.column_indices = column_indices,
                       !.filtered_headers =
                           IF f.selected_columns # <<>>
                           THEN [k \in 1..Len(column_indices) |->
                                     headers[column_indices[k]]]
                           ELSE headers]

\* lines 59-70: one turn of "for row in reader"
PreviewRow(f) ==
    IF f.pos > Len(f.file) \/ f.row_count >= f.limit
    THEN [f EXCEPT !.pc = "l72"]
    ELSE LET row == f.file[f.pos]
             indexed == IF f.column_indices # <<>> THEN f.column_indices
                        ELSE [i \in 1..Len(row) |-> i]
             names == IF f.column_indices # <<>> THEN f.filtered_headers
                      ELSE f.headers
         IN  IF \/ \E k \in 1..Len(indexed) : indexed[k] > Len(row)
                \/ Len(indexed) > Len(names)
             THEN PreviewRaise(f, "list index out of range")
             ELSE [f EXCEPT !.results =
                                Append(@, RowDict(names,
                                    [k \in 1..Len(indexed) |-> row[indexed[k]]])),
                            !.row_count = @ + 1,
                            !.pos = @ + 1]

\* line 72
PreviewReturn(f) == [f EXCEPT !.pc = "returned", !.result = f.results]

\* the frame of a call before its first statement
PreviewFrame(file, readable, has_header, selected_columns, limit) ==
    [pc |-> "l36", file |-> file, readable |-> readable,
     has_header |-> has_header, selected_columns |-> selected_columns,
     limit |-> limit, headers |-> <<>>, column_indices |-> <<>>,
     filtered_headers |-> <<>>, results |-> <<>>, row_count |-> 0, pos |-> 0,
     result |-> <<>>, error |-> ""]

\* limit: int = 100, line 32
DefaultLimit == 100

PreviewCalls ==
    {PreviewFrame(SourceFile(n, has_header, short), readable, has_header,
                  selected_columns, limit) :
        n \in 0..MaxRecords, has_header \in BOOLEAN, short \in 0..MaxRecords,
        readable \in BOOLEAN, selected_columns \in Selections,
        limit \in {0, MaxBatch, DefaultLimit}}

PreviewAt(label) == preview.pc = label /\ UNCHANGED <<plan, imp, exp, registry>>

PreviewReadsSchema == PreviewAt("l36") /\ preview' = PreviewSchema(preview)

PreviewReadsRow == PreviewAt("l59") /\ preview' = PreviewRow(preview)

PreviewReturns == PreviewAt("l72") /\ preview' = PreviewReturn(preview)

----------------------------------------------------------------------------
(* clickhouse.py: export_to_file *)

ExportIdle == [pc |-> "idle"]

\* raise Exception(f"Export to file failed: {str(e)}"), line 163
ExportRaise(f, message) ==
    [f EXCEPT !.pc = "raised",
              !.error = "Export to file failed: " \o message]

\* line 145
ExportBuild(f) ==
    LET built == build_query(f.tables, f.columns_map, f.join_config, NoLimit)
    IN  IF built.ok THEN [f EXCEPT !.pc = "l148", !.query = built.value]
        ELSE ExportRaise(f, built.error)

\* the names the database gives the columns of a result
RECURSIVE ResultColumns(_)
ResultColumns(select) ==
    IF select = <<>> THEN <<>>
    ELSE (IF Head(select).column = "*"
          THEN Catalog(Head(select).table)
          ELSE <<Head(select).column>>)
         \o ResultColumns(Tail(select))

\* row i of a result with the given columns
ResultRow(i, columns) ==
    [k \in 1..Len(columns) |-> columns[k] \o ToString(i)]

\* what client.execute(query, with_column_types=True) answers: the names and
\* the rows of the result.  A frame may state the table the query reads,
\* names and cells spelled out as texts (field content); otherwise the names
\* come from the catalog and the rows are generated.
QueryResult(f) ==
    IF "content" \in DOMAIN f
    THEN [column_names |-> f.content.columns, data |-> f.content.rows]
    ELSE LET column_names ==
                 ResultColumns([k \in 1..Len(f.query.select) |->
                     IF f.query.select[k] = Star
                     THEN ColumnRef(f.query.from, "*")
                     ELSE f.query.select[k]])
         IN  [column_names |-> column_names,
              data |-> [i \in 1..f.rows |-> ResultRow(i, column_names)]]

\* lines 148-150: the whole result is fetched into data
ExportExecute(f) ==
    IF f.query_fails THEN ExportRaise(f, DbError(1))
    ELSE [f EXCEPT !.pc = "l153",
                   !.column_names = QueryResult(f).column_names,
                   !.data = QueryResult(f).data]

\* the output file opened and no header written
ExportOpenNoHeader(f) ==
    IF ~f.writable THEN ExportRaise(f, "Permission denied")
    ELSE [f EXCEPT !.pc = "l158", !.output = <<>>, !.next = 1]

\* lines 153-156: open the output file (truncating it) and write the header
ExportOpen(f) ==
    IF ~f.writable THEN ExportRaise(f, "Permission denied")
    ELSE [f EXCEPT !.pc = "l158",
                   !.output = <<f.column_names>>,
                   !.next = 1]

\* lines 158-159: one turn of "for row in data"
ExportWriteRow(f) ==
    IF f.next > Len(f.data) THEN [f EXCEPT !.pc = "l161"]
    ELSE [f EXCEPT !.output = Append(@, f.data[f.next]), !.next = @ + 1]

\* line 161
ExportReturn(f) == [f EXCEPT !.pc = "returned", !.result = Len(f.data)]

\* the frame of a call before its first statement; rows is the size of the
\* result the database holds for the query, NoFile the output file not written
NoFile == <<>>

ExportFrame(tables, columns_map, join_config, rows, query_fails, writable) ==
    [pc |-> "l145", tables |-> tables, columns_map |-> columns_map,
     join_config |-> join_config, rows |-> rows, query_fails |-> query_fails,
     writable |-> writable, query |-> None, column_names |-> <<>>,
     data |-> <<>>, output |-> NoFile, next |-> 0, result |-> 0, error |-> ""]

ExportStep(f) ==
    CASE f.pc = "l145" -> ExportBuild(f)
      [] f.pc = "l148" -> ExportExecute(f)
      [] f.pc = "l153" -> ExportOpen(f)
      [] f.pc = "l158" -> ExportWriteRow(f)
      [] f.pc = "l161" -> ExportReturn(f)
      [] OTHER         -> f

ExportDone(f) == f.pc \in {"returned", "raised"}

\* the whole call: the frame export_to_file ends in
RECURSIVE RunExport(_)
RunExport(f) == IF ExportDone(f) THEN f ELSE RunExport(ExportStep(f))

ExportCalls ==
    {ExportFrame(tables, columns_map, join_config, rows, query_fails, writable) :
        tables \in {<<"orders">>, <<"orders", "customers">>},
        columns_map \in {EmptyDict, [orders |-> <<"id">>, customers |-> <<"name">>]},
        join_config \in {None, [conditions |-> SubSeq(Conditions, 1, 1)]},
        rows \in 0..MaxRecords, query_fails \in BOOLEAN, writable \in BOOLEAN}

ExportAt(label) == exp.pc = label /\ UNCHANGED <<plan, imp, preview, registry>>

ExportBuilds == ExportAt("l145") /\ exp' = ExportBuild(exp)

ExportExecutes == ExportAt("l148") /\ exp' = ExportExecute(exp)

ExportOpens == ExportAt("l153") /\ exp' = ExportOpen(exp)

ExportWritesRow == ExportAt("l158") /\ exp' = ExportWriteRow(exp)

ExportReturns == ExportAt("l161") /\ exp' = ExportReturn(exp)

----------------------------------------------------------------------------
(* The csv writer of export_to_file and the csv reader of                  *)
(* import_to_clickhouse.  A text is a sequence of characters, a field a    *)
(* text, a record a sequence of fields.  Both sides use the default        *)
(* dialect: quote character ", doubled inside a quoted field, minimal      *)
(* quoting, records ended by \r\n, and files opened with newline=''.       *)

Quote == "\""

LF == "\n"

CR == "\r"

LineTerminator == <<CR, LF>>

\* minimal quoting: the field holds the delimiter, a quote or a line break
NeedsQuotes(field, delimiter) ==
    \E k \in 1..Len(field) : field[k] \in {delimiter, Quote, CR, LF}

RECURSIVE Doubled(_)
Doubled(field) ==
    IF field = <<>> THEN <<>>
    ELSE (IF Head(field) = Quote THEN <<Quote, Quote>> ELSE <<Head(field)>>)
         \o Doubled(Tail(field))

WriteField(field, delimiter) ==
    IF NeedsQuotes(field, delimiter)
    THEN <<Quote>> \o Doubled(field) \o <<Quote>>
    ELSE field

RECURSIVE JoinFields(_, _)
JoinFields(fields, delimiter) ==
    IF fields = <<>> THEN <<>>
    ELSE IF Len(fields) = 1 THEN Head(fields)
    ELSE Head(fields) \o <<delimiter>> \o JoinFields(Tail(fields), delimiter)

\* writer.writerow(record): the text appended to the file; a record of one
\* empty field is written quoted, to tell it from an empty line
csv_writerow(record, delimiter) ==
    (IF record = << <<>> >> THEN <<Quote, Quote>>
     ELSE JoinFields([k \in 1..Len(record) |-> WriteField(record[k], delimiter)],
                     delimiter))
    \o LineTerminator

\* the file after the records were written one after the other
RECURSIVE csv_file(_, _)
csv_file(records, delimiter) ==
    IF records = <<>> THEN <<>>
    ELSE csv_writerow(Head(records), delimiter) \o csv_file(Tail(records), delimiter)

\* csv.reader is a state machine over the characters of each line
ReaderStart ==
    [state |-> "START_RECORD", field |-> <<>>, fields |-> <<>>,
     records |-> <<>>, error |-> FALSE]

SaveField(r) == [r EXCEPT !.fields = Append(@, r.field), !.field = <<>>]

AddChar(r, c) == [r EXCEPT !.field = Append(@, c)]

ReadChar(r, c, delimiter) ==
    CASE r.state = "START_RECORD" /\ c \in {CR, LF} ->
             [r EXCEPT !.state = "EAT_CRNL"]
      [] r.state \in {"START_RECORD", "START_FIELD"} /\ c \in {CR, LF} ->
             [SaveField(r) EXCEPT !.state = "EAT_CRNL"]
      [] r.state \in {"START_RECORD", "START_FIELD"} /\ c = Quote ->
             [r EXCEPT !.state = "IN_QUOTED_FIELD"]
      [] r.state \in {"START_RECORD", "START_FIELD"} /\ c = delimiter ->
             [SaveField(r) EXCEPT !.state = "START_FIELD"]
      [] r.state \in {"START_RECORD", "START_FIELD"} ->
             [AddChar(r, c) EXCEPT !.state = "IN_FIELD"]
      [] r.state = "IN_FIELD" /\ c \in {CR, LF} ->
             [SaveField(r) EXCEPT !.state = "EAT_CRNL"]
      [] r.state = "IN_FIELD" /\ c = delimiter ->
             [SaveField(r) EXCEPT !.state = "START_FIELD"]
      [] r.state = "IN_FIELD" -> AddChar(r, c)
      [] r.state = "IN_QUOTED_FIELD" /\ c = Quote ->
             [r EXCEPT !.state = "QUOTE_IN_QUOTED_FIELD"]
      [] r.state = "IN_QUOTED_FIELD" -> AddChar(r, c)
      [] r.state = "QUOTE_IN_QUOTED_FIELD" /\ c = Quote ->
             [AddChar(r, c) EXCEPT !.state = "IN_QUOTED_FIELD"]
      [] r.state = "QUOTE_IN_QUOTED_FIELD" /\ c = delimiter ->
             [SaveField(r) EXCEPT !.state = "START_FIELD"]
      [] r.state = "QUOTE_IN_QUOTED_FIELD" /\ c \in {CR, LF} ->
             [SaveField(r) EXCEPT !.state = "EAT_CRNL"]
      [] r.state = "QUOTE_IN_QUOTED_FIELD" ->
             [AddChar(r, c) EXCEPT !.state = "IN_FIELD"]
      [] r.state = "EAT_CRNL" /\ c \in {CR, LF} -> r
      [] OTHER -> [r EXCEPT !.error = TRUE]

\* the record in progress is delivered
Deliver(r) ==
    [r EXCEPT !.state = "START_RECORD", !.records = Append(@, r.fields),
              !.fields = <<>>]

\* the end of a line: a quoted field goes on with the next line, anything
\* else ends the record
ReadEol(r) ==
    CASE r.error -> r
      [] r.state = "IN_QUOTED_FIELD" -> r
      [] r.state \in {"START_FIELD", "IN_FIELD", "QUOTE_IN_QUOTED_FIELD"} ->
             Deliver(SaveField(r))
      [] OTHER -> Deliver(r)

\* the end of the file inside a quoted field
ReadEof(r) ==
    IF ~r.error /\ r.state = "IN_QUOTED_FIELD" THEN Deliver(SaveField(r)) ELSE r

\* with newline='' a line ends after \n, after \r\n, after a lone \r and at
\* the end of the file
IsLineEnd(text, i) ==
    \/ i = Len(text)
    \/ text[i] = LF
    \/ text[i] = CR /\ text[i + 1] # LF

RECURSIVE ReadText(_, _, _, _)
ReadText(text, i, r, delimiter) ==
    IF r.error THEN r
    ELSE IF i > Len(text) THEN ReadEof(r)
    ELSE LET c == ReadChar(r, text[i], delimiter)
         IN  ReadText(text, i + 1,
                      IF IsLineEnd(text, i) THEN ReadEol(c) ELSE c, delimiter)

\* list(csv.reader(file, delimiter=delimiter)): the records of a text
csv_reader(text, delimiter) == ReadText(text, 1, ReaderStart, delimiter)

\* Export followed by import of the exported file.  The table exported has
\* one or two columns and cells over CellChars, at most MaxText characters
\* in all; the file is the text the writer produced, read back by the reader
\* with the same delimiter.
CellChars == {",", Quote, LF}

Delimiters == {",", ";"}

Texts(n) == UNION {[1..k -> CellChars] : k \in 0..n}

\* the sequences of k texts with at most n characters in all
RECURSIVE CellSeqs(_, _)
CellSeqs(k, n) ==
    IF k = 0 THEN {<<>>}
    ELSE UNION {{<<t>> \o s : s \in CellSeqs(k - 1, n - Len(t))} : t \in Texts(n)}

TextColumns == << <<"i", "d">>, <<"a", ",", "b">> >>

TextTables ==
    {[columns |-> SubSeq(TextColumns, 1, width),
      rows |-> [i \in 1..n |-> SubSeq(cells, (i - 1) * width + 1, i * width)]] :
        <<width, n, cells>> \in
            UNION {{<<w, n, cells>> : cells \in CellSeqs(w * n, MaxText)} :
                       <<w, n>> \in (1..Len(TextColumns)) \X (0..MaxRows)}}

RoundTripCalls ==
    {ExportFrame(<<"orders">>, EmptyDict, None, Len(content.rows), FALSE, TRUE)
     @@ [content |-> content, delimiter |-> delimiter] :
        content \in TextTables, delimiter \in Delimiters}

\* export_to_file(client, tables, columns_map, output_file, delimiter)
RoundTripExport ==
    /\ exp.pc = "l145"
    /\ exp' = RunExport(exp)
    /\ UNCHANGED <<plan, imp, preview, registry>>

\* import_to_clickhouse(output_file, client, target_table, None, delimiter)
\* into a table that does not exist
RoundTripImport ==
    /\ exp.pc = "returned"
    /\ imp = ImportIdle
    /\ LET text == csv_file(exp.output, exp.delimiter)
           read == csv_reader(text, exp.delimiter)
           f == ImportFrame(read.records, TRUE, <<>>, TRUE, DefaultBatchSize,
                            NoTable, FALSE, 0)
       IN  imp' = IF read.error
                  THEN ImportRaise(f, "new-line character seen in unquoted field")
                  ELSE RunImport(f)
    /\ UNCHANGED <<plan, exp, preview, registry>>

----------------------------------------------------------------------------
(* app.py: the job registry *)

JobIds == {ToString(n) : n \in 1..MaxJobs}

\* a job id taken from the number of jobs still running
NewJobIdOfActive(jobs) ==
    ToString(Cardinality({j \in DOMAIN jobs :
                             jobs[j].status \notin {"completed", "failed"}}) + 1)

\* line 168: str(len(ingestion_jobs) + 1)
NewJobId(jobs) == ToString(Cardinality(DOMAIN jobs) + 1)

\* line 169: the dict a job is registered with
NewJob == [status |-> "starting", records_processed |-> 0]

\* d[key] = value on a dict: the key is added or overwritten
SetItem(d, key, value) == (key :> value) @@ d

\* The request bodies of /start-ingestion: the source type, and whether
\* clickhouse_config holds the fields ClickHouseConfig requires
Configs ==
    [source_type : {"clickhouse", "flatfile", "ftp"},
     clickhouse_config : {"valid", "missing"}]

LoopIdle == [pc |-> "idle"]

\* start_ingestion is "async def" and awaits nothing: the event loop runs one
\* handler at a time, to its end
LoopFree == loop.pc = "idle"

\* the frame of a background task before its first statement; session is
\* the database session of its local variable client ("none" before
\* create_client returned), files the file handles of its engine call
TaskFrame(config) ==
    [pc |-> "l190", config |-> config, engine |-> "not called",
     records_count |-> 0, raised |-> FALSE, e |-> "",
     session |-> "none", files |-> "none"]

NoSink == [inserted |-> <<>>, output |-> NoFile]

\* line 168
StartIngestionAllocate(config) ==
    /\ LoopFree
    /\ Len(returned) < MaxJobs
    /\ loop' = [pc |-> "l169", job_id |-> NewJobId(ingestion_jobs),
                config |-> config]
    /\ UNCHANGED <<engines, ingestion_jobs, tasks, sinks, returned>>

\* lines 169-177: register the job, add the background task, return the id
StartIngestionRegister ==
    /\ loop.pc = "l169"
    /\ ingestion_jobs' = SetItem(ingestion_jobs, loop.job_id, NewJob)
    /\ tasks' = SetItem(tasks, loop.job_id, TaskFrame(loop.config))
    /\ sinks' = SetItem(sinks, loop.job_id, NoSink)
    /\ returned' = Append(returned, loop.job_id)
    /\ loop' = LoopIdle
    /\ UNCHANGED engines

\* lines 181-186: what get_job_status answers in the current state
JobStatusResponse(job_id) ==
    IF job_id \notin DOMAIN ingestion_jobs
    THEN [status_code |-> 404, detail |-> "Job not found"]
    ELSE [status_code |-> 200, body |-> ingestion_jobs[job_id]]

\* lines 181-186: the handler reads the registry and writes nothing
GetJobStatus(job_id) ==
    /\ LoopFree
    /\ JobStatusResponse(job_id).status_code \in {200, 404}
    /\ UNCHANGED vars

\* a write through one shared "current job": the job registered last
SetFieldOfLatest(job_id, key, value) ==
    ingestion_jobs' = [ingestion_jobs EXCEPT ![returned[Len(returned)]] =
                           SetItem(@, key, value)]

\* ingestion_jobs[job_id][key] = value
SetField(job_id, key, value) ==
    ingestion_jobs' = [ingestion_jobs EXCEPT ![job_id] = SetItem(@, key, value)]

TaskAt(job_id, label) == job_id \in DOMAIN tasks /\ tasks[job_id].pc = label

\* line 190
Begin(job_id) ==
    /\ TaskAt(job_id, "l190")
    /\ SetField(job_id, "status", "processing")
    /\ tasks' = [tasks EXCEPT ![job_id].pc = "l191"]
    /\ UNCHANGED <<engines, loop, sinks, returned>>

\* the transfers of the jobs: every import runs with the default batch size,
\* into a table that is absent or empty
JobImportCalls ==
    {ImportFrame(SourceFile(MaxRecords, FALSE, 0), TRUE, <<>>, FALSE,
                 DefaultBatchSize, table, FALSE, failing_insert) :
        table \in {NoTable, ExistingTable(<<>>)}, failing_insert \in {0, 2}}

JobExportCalls ==
    {ExportFrame(tables, EmptyDict, None, MaxRecords, FALSE, TRUE) :
        tables \in {<<"orders">>, <<"orders", "customers">>}}

\* the frame after the try block raised: control is at the except clause
TaskRaised(frame, message) ==
    [frame EXCEPT !.pc = "l254", !.raised = TRUE, !.e = message]

\* lines 202-208 and 231-237, then the engine call: create_client returned a
\* connected Client, kept in the local variable client and passed to the
\* engine; the engine opened its files in "with" blocks, which close them
\* when the call returns or raises.  No statement of app.py, clickhouse.py or
\* file_handler.py disconnects the client.
Connected(frame) == [frame EXCEPT !.session = "open", !.files = "closed"]

\* the INSERT batches the database accepted
Accepted(calls) ==
    LET RECURSIVE Acc(_)
        Acc(cs) == IF cs = <<>> THEN <<>>
                   ELSE (IF Head(cs).stmt = "INSERT" /\ Head(cs).ok
                         THEN <<Head(cs).rows>> ELSE <<>>) \o Acc(Tail(cs))
    IN  Acc(calls)

\* lines 195-218: the database to file direction, up to export_to_file's return
TransferToFile(job_id) ==
    LET frame == tasks[job_id]
    IN  IF frame.config.clickhouse_config = "missing"
        THEN /\ tasks' = [tasks EXCEPT ![job_id] =
                              TaskRaised(frame, "validation error for ClickHouseConfig")]
             /\ UNCHANGED sinks
        ELSE \/ /\ tasks' = [tasks EXCEPT ![job_id] =      \* create_client raises
                       TaskRaised(frame, "ClickHouse connection failed: refused")]
                /\ UNCHANGED sinks
             \/ \E call \in JobExportCalls :
                    LET f == RunExport(call)
                    IN  /\ sinks' = [sinks EXCEPT ![job_id].output = f.output]
                        /\ tasks' = [tasks EXCEPT ![job_id] =
                               IF f.pc = "returned"
                               THEN [Connected(frame) EXCEPT
                                         !.pc = "l220",
                                         !.engine = "returned",
                                         !.records_count = f.result]
                               ELSE [TaskRaised(Connected(frame), f.error) EXCEPT
                                         !.engine = "raised"]]

\* lines 225-247: the file to database direction, up to import_to_clickhouse's return
TransferToClickhouse(job_id) ==
    LET frame == tasks[job_id]
    IN  IF frame.config.clickhouse_config = "missing"
        THEN /\ tasks' = [tasks EXCEPT ![job_id] =
                              TaskRaised(frame, "validation error for ClickHouseConfig")]
             /\ UNCHANGED sinks
        ELSE \/ /\ tasks' = [tasks EXCEPT ![job_id] =      \* create_client raises
                       TaskRaised(frame, "ClickHouse connection failed: refused")]
                /\ UNCHANGED sinks
             \/ \E call \in JobImportCalls :
                    LET f == RunImport(call)
                    IN  /\ sinks' = [sinks EXCEPT ![job_id].inserted = Accepted(f.calls)]
                        /\ tasks' = [tasks EXCEPT ![job_id] =
                               IF f.pc = "returned"
                               THEN [Connected(frame) EXCEPT
                                         !.pc = "l249",
                                         !.engine = "returned",
                                         !.records_count = f.result]
                               ELSE [TaskRaised(Connected(frame), f.error) EXCEPT
                                         !.engine = "raised"]]

\* lines 191-247: the branch on source_type; any other source type falls
\* through both branches to line 251
Transfer(job_id) ==
    /\ TaskAt(job_id, "l191")
    /\ CASE tasks[job_id].config.source_type = "clickhouse" -> TransferToFile(job_id)
         [] tasks[job_id].config.source_type = "flatfile" -> TransferToClickhouse(job_id)
         [] OTHER -> /\ tasks' = [tasks EXCEPT ![job_id].pc = "l251"]
                     /\ UNCHANGED sinks
    /\ UNCHANGED <<engines, ingestion_jobs, loop, returned>>

\* lines 220 and 249
WriteRecordsProcessed(job_id) ==
    /\ TaskAt(job_id, "l220") \/ TaskAt(job_id, "l249")
    /\ SetField(job_id, "records_processed", tasks[job_id].records_count)
    /\ tasks' = [tasks EXCEPT ![job_id].pc =
                     IF tasks[job_id].pc = "l220" THEN "l221" ELSE "l251"]
    /\ UNCHANGED <<engines, loop, sinks, returned>>

\* line 221, with line 198's default name
WriteOutputFile(job_id) ==
    /\ TaskAt(job_id, "l221")
    /\ SetField(job_id, "output_file", "export_" \o job_id \o ".csv")
    /\ tasks' = [tasks EXCEPT ![job_id].pc = "l251"]
    /\ UNCHANGED <<engines, loop, sinks, returned>>

\* a task that forgets its final status
FinalStatusOmitted == "processing"

\* line 251: the status the try block ends with
FinalStatus == "completed"

Complete(job_id) ==
    /\ TaskAt(job_id, "l251")
    /\ SetField(job_id, "status", FinalStatus)
    /\ tasks' = [tasks EXCEPT ![job_id].pc = "done"]
    /\ UNCHANGED <<engines, loop, sinks, returned>>

\* an except clause that puts the job back for another run
RaisedStatusRequeue == "starting"

\* line 254: the status the except clause sets
RaisedStatus == "failed"

\* an except clause that also reports the rows committed before the failure
FailReportingProgress(job_id) ==
    /\ TaskAt(job_id, "l254")
    /\ ingestion_jobs' = [ingestion_jobs EXCEPT ![job_id] =
           SetItem(SetItem(@, "status", RaisedStatus), "records_processed",
                   SeqSum([k \in 1..Len(sinks[job_id].inserted) |->
                               Len(sinks[job_id].inserted[k])]))]
    /\ tasks' = [tasks EXCEPT ![job_id].pc = "l255"]
    /\ UNCHANGED <<engines, loop, sinks, returned>>

Fail(job_id) ==
    /\ TaskAt(job_id, "l254")
    /\ SetField(job_id, "status", RaisedStatus)
    /\ tasks' = [tasks EXCEPT ![job_id].pc = "l255"]
    /\ UNCHANGED <<engines, loop, sinks, returned>>

\* line 255
StoreError(job_id) ==
    /\ TaskAt(job_id, "l255")
    /\ SetField(job_id, "error", tasks[job_id].e)
    /\ tasks' = [tasks EXCEPT ![job_id].pc = "done"]
    /\ UNCHANGED <<engines, loop, sinks, returned>>

\* After process_ingestion returned, nothing refers to the Client any more:
\* the interpreter may reclaim it, at a time of its choosing, and the socket
\* closes with it.
CollectClient(job_id) ==
    /\ TaskAt(job_id, "done")
    /\ tasks[job_id].session = "open"
    /\ tasks' = [tasks EXCEPT ![job_id].session = "collected"]
    /\ UNCHANGED <<engines, ingestion_jobs, loop, sinks, returned>>

\* lines 115-163: the /preview-data handler reads a table or a file and
\* answers; it neither reads nor writes the registry
PreviewHandler(config) ==
    /\ LoopFree
    /\ config.source_type \in {"clickhouse", "flatfile", "ftp"}
    /\ UNCHANGED vars

\* one statement of the background task of job_id
ProcessIngestion(job_id) ==
    \/ Begin(job_id)
    \/ Transfer(job_id)
    \/ WriteRecordsProcessed(job_id)
    \/ WriteOutputFile(job_id)
    \/ Complete(job_id)
    \/ Fail(job_id)
    \/ StoreError(job_id)

RegistryIdle ==
    /\ ingestion_jobs = EmptyDict
    /\ loop = LoopIdle
    /\ tasks = EmptyDict
    /\ sinks = EmptyDict
    /\ returned = <<>>

----------------------------------------------------------------------------
(* The specifications *)

Init ==
    plan = PlanIdle /\ imp = ImportIdle /\ exp = ExportIdle /\ preview = PreviewIdle
    /\ RegistryIdle

Next ==
    \/ \E config \in Configs : StartIngestionAllocate(config)
    \/ StartIngestionRegister
    \/ \E job_id \in JobIds \cup {"0"} : GetJobStatus(job_id)
    \/ \E job_id \in JobIds : ProcessIngestion(job_id)
    \/ \E job_id \in JobIds : CollectClient(job_id)
    \/ \E config \in Configs : PreviewHandler(config)

Spec == Init /\ [][Next]_vars

\* Every background task added is run, statement after statement, and every
\* handler the event loop started runs to its end.
FairSpec ==
    /\ Spec
    /\ WF_vars(StartIngestionRegister)
    /\ \A job_id \in JobIds : WF_vars(ProcessIngestion(job_id))

PlanInit ==
    plan \in PlanCalls /\ imp = ImportIdle /\ exp = ExportIdle /\ preview = PreviewIdle
    /\ RegistryIdle

PlanNext == BuildQuery

PlanSpec == PlanInit /\ [][PlanNext]_vars

ImportInit ==
    imp \in ImportCalls /\ plan = PlanIdle /\ exp = ExportIdle /\ preview = PreviewIdle
    /\ RegistryIdle

ImportNext ==
    \/ ImportReadSchema
    \/ ImportProbeTable
    \/ ImportCreateTable
    \/ ImportOpenReader
    \/ ImportReadRow
    \/ ImportInsertBatch
    \/ ImportInsertRemainder
    \/ ImportReturns

ImportSpec == ImportInit /\ [][ImportNext]_vars

ExportInit ==
    exp \in ExportCalls /\ plan = PlanIdle /\ imp = ImportIdle /\ preview = PreviewIdle
    /\ RegistryIdle

ExportNext ==
    \/ ExportBuilds
    \/ ExportExecutes
    \/ ExportOpens
    \/ ExportWritesRow
    \/ ExportReturns

ExportSpec == ExportInit /\ [][ExportNext]_vars

\* a call of import_to_clickhouse or a call of preview_data
FileInit ==
    /\ \/ imp \in ImportCalls /\ preview = PreviewIdle
       \/ imp = ImportIdle /\ preview \in PreviewCalls
    /\ plan = PlanIdle /\ exp = ExportIdle /\ RegistryIdle

FileNext ==
    \/ ImportNext
    \/ PreviewReadsSchema
    \/ PreviewReadsRow
    \/ PreviewReturns

FileSpec == FileInit /\ [][FileNext]_vars

RoundTripInit ==
    exp \in RoundTripCalls /\ plan = PlanIdle /\ imp = ImportIdle /\ preview = PreviewIdle
    /\ RegistryIdle

RoundTripNext ==
    \/ RoundTripExport
    \/ RoundTripImport

RoundTripSpec == RoundTripInit /\ [][RoundTripNext]_vars

----------------------------------------------------------------------------
(* The job registry: claims C1 to C6 *)

Status(job_id) == ingestion_jobs[job_id].status

Terminal == {"completed", "failed"}

HasStatus(job_id, status) ==
    job_id \in DOMAIN ingestion_jobs /\ Status(job_id) = status

\* C1: every id start_ingestion returns differs from every id it returned
\* before, and the job id a submission is about to register is not yet a key
\* of ingestion_jobs nor an id already returned, whatever the background tasks
\* did in between.
UniqueJobIds ==
    /\ \A i, k \in 1..Len(returned) : i # k => returned[i] # returned[k]
    /\ loop.pc = "l169" =>
           /\ loop.job_id \notin DOMAIN ingestion_jobs
           /\ loop.job_id \notin Range(returned)

\* C1's case: a submission is between lines 168 and 169 while an earlier job
\* has already ended.
UniqueJobIdsWitness ==
    /\ loop.pc = "l169"
    /\ \E job_id \in DOMAIN ingestion_jobs : Status(job_id) \in Terminal

ForwardSteps ==
    {<<"starting", "processing">>, <<"processing", "completed">>,
     <<"processing", "failed">>}

\* C2: in every step, every registered job stays registered and its status is
\* unchanged or moves along starting -> processing -> {completed, failed}; a
\* completed or failed status has no step out of it.
StatusForwardOnly ==
    [][\A job_id \in DOMAIN ingestion_jobs :
           /\ job_id \in DOMAIN ingestion_jobs'
           /\ \/ ingestion_jobs'[job_id].status = Status(job_id)
              \/ <<Status(job_id), ingestion_jobs'[job_id].status>> \in ForwardSteps]_vars

\* C2's case: one job has completed and another has failed.
StatusForwardOnlyWitness ==
    \E a, b \in DOMAIN ingestion_jobs :
        Status(a) = "completed" /\ Status(b) = "failed"

\* C3: a job is registered, in status starting, when its task has not run its
\* first statement; under fair scheduling every registered job reaches
\* completed or failed; and the one it reached it keeps.
JobLifecycle ==
    /\ [](\A job_id \in DOMAIN tasks :
              /\ job_id \in DOMAIN ingestion_jobs
              /\ tasks[job_id].pc = "l190" => Status(job_id) = "starting")
    /\ \A job_id \in JobIds :
           (job_id \in DOMAIN ingestion_jobs) ~>
               (HasStatus(job_id, "completed") \/ HasStatus(job_id, "failed"))
    /\ [][\A job_id \in DOMAIN ingestion_jobs :
               Status(job_id) \in Terminal =>
                   /\ job_id \in DOMAIN ingestion_jobs'
                   /\ ingestion_jobs'[job_id].status = Status(job_id)]_vars

\* C3's case: every job of the run was submitted and its task has ended.
JobLifecycleWitness ==
    \A job_id \in JobIds : TaskAt(job_id, "done")

\* C4: a completed job is one whose transfer engine was called and returned.
CompletedOnlyAfterEngineReturned ==
    \A job_id \in DOMAIN ingestion_jobs :
        Status(job_id) = "completed" => tasks[job_id].engine = "returned"

\* the data rows a transfer put into its sink: the rows of the accepted INSERT
\* batches, and the records of the output file after its header
RowsPut(sink) ==
    SeqSum([k \in 1..Len(sink.inserted) |-> Len(sink.inserted[k])])
    + (IF sink.output = NoFile THEN 0 ELSE Len(sink.output) - 1)

\* C5: the records_processed of a completed job is the number of data rows
\* its transfer put into the (initially empty) sink.
RecordsProcessedMatchesSink ==
    \A job_id \in DOMAIN ingestion_jobs :
        Status(job_id) = "completed" =>
            ingestion_jobs[job_id].records_processed = RowsPut(sinks[job_id])

\* C5's case: a file to database job completed after several batches, and a
\* database to file job completed after writing rows.
RecordsProcessedMatchesSinkWitness ==
    /\ \E job_id \in DOMAIN ingestion_jobs :
           /\ Status(job_id) = "completed"
           /\ Len(sinks[job_id].inserted) > 1
    /\ \E job_id \in DOMAIN ingestion_jobs :
           /\ Status(job_id) = "completed"
           /\ Len(sinks[job_id].output) > 1

\* C6: a task that raised ends with its job failed and the message stored, and
\* in every state a job has an error field exactly when its status is failed.
FailureCapturedInJob ==
    \A job_id \in DOMAIN ingestion_jobs :
        /\ ("error" \in DOMAIN ingestion_jobs[job_id]) <=> (Status(job_id) = "failed")
        /\ (tasks[job_id].pc = "done" /\ tasks[job_id].raised) =>
               /\ Status(job_id) = "failed"
               /\ "error" \in DOMAIN ingestion_jobs[job_id]
               /\ ingestion_jobs[job_id].error = tasks[job_id].e

----------------------------------------------------------------------------
(* import_to_clickhouse: claims C7 and C8 *)

\* the INSERT statements of the session, in order
Inserts(calls) ==
    LET RECURSIVE Ins(_)
        Ins(cs) == IF cs = <<>> THEN <<>>
                   ELSE (IF Head(cs).stmt = "INSERT" THEN <<Head(cs)>> ELSE <<>>)
                        \o Ins(Tail(cs))
    IN  Ins(calls)

\* a row as the INSERT carries it: the cells at the resolved columns
Projected(row, column_indices) ==
    IF column_indices = <<>> THEN row
    ELSE [k \in 1..Len(column_indices) |-> row[column_indices[k]]]

\* C7: when an import of N data rows with batch size B returns, it has issued
\* ceil(N/B) INSERT calls, each but the last of B rows, the last of N mod B
\* rows (B when B divides N), the rows in file order, and it returns N.
BatchBoundaries ==
    imp.pc = "returned" =>
        LET rows == DataRows(imp.file, imp.has_header)
            N == Len(rows)
            B == imp.batch_size
            inserts == Inserts(imp.calls)
        IN  /\ Len(inserts) = (N + B - 1) \div B
            /\ \A k \in 1..(Len(inserts) - 1) : Len(inserts[k].rows) = B
            /\ inserts # <<>> =>
                   Len(inserts[Len(inserts)].rows) = (IF N % B = 0 THEN B ELSE N % B)
            /\ Flatten([k \in 1..Len(inserts) |-> inserts[k].rows])
                   = [i \in 1..N |-> Projected(rows[i], imp.column_indices)]
            /\ imp.result = N

\* C7's case: an import returned after a full batch and a shorter last one.
BatchBoundariesWitness ==
    /\ imp.pc = "returned"
    /\ Len(Inserts(imp.calls)) > 1
    /\ Len(DataRows(imp.file, imp.has_header)) % imp.batch_size # 0

\* the rows of the target table before the import
RowsBefore(f) == IF f.table0.exists THEN f.table0.rows ELSE <<>>

\* C8: once an INSERT call was rejected, it is the last call of the session
\* (none follows, none repeats it), the import has raised with that call's
\* error, and the table holds the batches of the INSERT calls before it.
AbortOnFirstRejectedInsert ==
    \A p \in 1..Len(imp.calls) :
        (imp.calls[p].stmt = "INSERT" /\ ~imp.calls[p].ok) =>
            /\ p = Len(imp.calls)
            /\ imp.pc = "raised"
            /\ imp.error = "Import to ClickHouse failed: " \o DbError(p)
            /\ InsertCalls(imp.calls) = imp.failing_insert
            /\ imp.table.rows =
                   RowsBefore(imp) \o
                   Flatten([k \in 1..(imp.failing_insert - 1) |->
                                Inserts(imp.calls)[k].rows])

\* C8's case: an INSERT call after the first was rejected, with rows of the
\* earlier batches in the table and rows of the file still unread.
AbortOnFirstRejectedInsertWitness ==
    /\ imp.pc = "raised"
    /\ imp.calls # <<>>
    /\ ~imp.calls[Len(imp.calls)].ok
    /\ imp.calls[Len(imp.calls)].stmt = "INSERT"
    /\ InsertCalls(imp.calls) > 1
    /\ Len(imp.table.rows) > Len(RowsBefore(imp))
    /\ imp.pos <= Len(imp.file)

----------------------------------------------------------------------------
(* build_query: claims C9 and C10 *)

\* the tables a plan reads or projects
PlanTables(query) ==
    {query.from}
    \cup {query.joins[k].table : k \in 1..Len(query.joins)}
    \cup ({query.select[k].table : k \in 1..Len(query.select)} \ {""})

NoJoinSpecification(join_config) == join_config \in {None, EmptyDict}

\* C9: a call with more than one table and no join specification (None or
\* the empty dict) raises, and no plan that names more than one table is
\* returned without a join specification.
MultiTableNeedsJoin ==
    plan.pc = "done" =>
        /\ (Len(plan.tables) > 1 /\ NoJoinSpecification(plan.join_config)) =>
               /\ ~plan.result.ok
               /\ plan.result.error =
                      "Multiple tables selected but no join configuration provided"
        /\ (plan.result.ok /\ Cardinality(PlanTables(plan.result.value)) > 1) =>
               ~NoJoinSpecification(plan.join_config)

\* C9's case: two tables were selected with an empty join specification, and
\* build_query raised.
MultiTableNeedsJoinWitness ==
    /\ plan.pc = "done"
    /\ Len(plan.tables) = 2
    /\ plan.join_config = EmptyDict
    /\ ~plan.result.ok

\* the projection names a column its table does not have
AbsentColumnSelected(tables, columns_map) ==
    \E k \in 1..Len(tables) :
        \E col \in Range(Get(columns_map, tables[k], <<>>)) :
            col \notin Range(Catalog(tables[k]))

\* C10: plan construction fails whenever the projection names a column that
\* is absent from its table.
AbsentColumnRejected ==
    (plan.pc = "done" /\ AbsentColumnSelected(plan.tables, plan.columns_map)) =>
        ~plan.result.ok

----------------------------------------------------------------------------
(* Export and import again: claim C11 *)

\* C11: a table exported with export_to_file and imported again with
\* import_to_clickhouse (header, same delimiter) into a table that does not
\* exist gives a table with the same column names, the same number of rows
\* and the same cells, as text, in the same order.
RoundTrip ==
    imp # ImportIdle =>
        /\ imp.pc = "returned"
        /\ imp.table.exists
        /\ imp.table.columns =
               [k \in 1..Len(exp.content.columns) |->
                    StringColumn(exp.content.columns[k])]
        /\ imp.table.rows = exp.content.rows
        /\ imp.result = Len(exp.content.rows)

RoundTripWitness ==
    /\ imp # ImportIdle
    /\ imp.pc = "returned"
    /\ Len(imp.table.rows) = MaxRows
    /\ \E i \in 1..Len(imp.table.rows) : \E k \in 1..Len(imp.table.rows[i]) :
           /\ exp.delimiter \in Range(imp.table.rows[i][k])
           /\ Quote \in Range(imp.table.rows[i][k])
           /\ LF \in Range(imp.table.rows[i][k])

----------------------------------------------------------------------------
(* Files with and without header: claim C12 *)

\* the names col_0 .. col_{n-1} for a first record of n cells
NamedByPosition(headers, first_record) ==
    /\ Len(headers) = Len(first_record)
    /\ \A k \in 1..Len(headers) : headers[k] = "col_" \o ToString(k - 1)

----------------------------------------------------------------------------
(* The target table: claim C13 *)

\* the positions of the statements of one kind in a session
Statements(calls, stmt) == {p \in 1..Len(calls) : calls[p].stmt = stmt}

\* C13: in every import the existence of the target table is checked before
\* any INSERT; a table that is absent is created once, before the first
\* INSERT, with the resolved columns, each a String; for a table that exists
\* no CREATE statement is issued.
TableCheckedAndCreatedOnce ==
    LET creates == Statements(imp.calls, "CREATE")
        inserts == Statements(imp.calls, "INSERT")
    IN  /\ \A p \in inserts \cup creates :
               \E q \in Statements(imp.calls, "SELECT") : q < p
        /\ ~imp.table0.exists =>
               /\ Cardinality(creates) <= 1
               /\ \A p \in inserts : \E q \in creates : q < p /\ imp.calls[q].ok
               /\ \A q \in creates :
                      imp.calls[q].columns =
                          [k \in 1..Len(imp.column_names) |->
                               [name |-> imp.column_names[k], type |-> "String"]]
        /\ imp.table0.exists => creates = {}

----------------------------------------------------------------------------
(* build_query with several tables: claims C14 to C16 *)

\* the call has several tables, a condition for each table after the first
\* and a non-empty projection for every table
FullyJoined(call) ==
    /\ Len(call.tables) > 1
    /\ call.join_config # None
    /\ "conditions" \in DOMAIN call.join_config
    /\ Len(call.join_config.conditions) >= Len(call.tables) - 1
    /\ \A i \in 1..Len(call.tables) :
           /\ call.tables[i] \in DOMAIN call.columns_map
           /\ call.columns_map[call.tables[i]] # <<>>

FewerConditions(call) ==
    /\ Len(call.tables) > 1
    /\ Len(Get(call.join_config, "conditions", <<>>)) < Len(call.tables) - 1

\* the tables a plan reads: its FROM table and its joined tables
Sources(query) ==
    {query.from} \cup {query.joins[k].table : k \in 1..Len(query.joins)}

\* C15: with fewer conditions than tables after the first, every table after
\* the first is still in the join list of the plan, so that every table a
\* column is projected from is a source of the plan.
EveryTableJoined ==
    (plan.pc = "done" /\ plan.result.ok /\ FewerConditions(plan)) =>
        LET query == plan.result.value
        IN  /\ \A i \in 2..Len(plan.tables) :
                   \E k \in 1..Len(query.joins) :
                       query.joins[k].table = plan.tables[i]
            /\ \A k \in 1..Len(query.select) :
                   query.select[k].table \in Sources(query)

\* C16: in a plan for several tables, every table of the call, the first or
\* a later one, whose projection is empty or missing has table.* in the
\* SELECT list.
EmptyProjectionIsStar ==
    (plan.pc = "done" /\ plan.result.ok /\ Len(plan.tables) > 1) =>
        \A i \in 1..Len(plan.tables) :
            Get(plan.columns_map, plan.tables[i], <<>>) = <<>> =>
                \E k \in 1..Len(plan.result.value.select) :
                    plan.result.value.select[k] =
                        [table |-> plan.tables[i], column |-> "*"]

----------------------------------------------------------------------------
(* The columns of an import: claim C17 *)

\* the names of the file that were selected, in the order of the file
SelectedInFileOrder(headers, selected_columns) ==
    LET Selected(col) == col \in Range(selected_columns)
    IN  SelectSeq(headers, Selected)

\* C17: the column list of an import is the selected columns that are in the
\* file, in the order of the file's columns, and all the file's columns when
\* none is selected.
ColumnsInFileOrder ==
    (imp.pc # "l88" /\ imp.headers # <<>>) =>
        imp.column_names =
            IF imp.selected_columns = <<>> THEN imp.headers
            ELSE SelectedInFileOrder(imp.headers, imp.selected_columns)

----------------------------------------------------------------------------
(* The memory of an export: claim C18 *)

\* the rows of the result that export_to_file holds and has not yet written
HeldUnwritten(f) ==
    CASE f.pc = "l153" -> Len(f.data)
      [] f.pc = "l158" -> Len(f.data) - (Len(f.output) - 1)
      [] OTHER         -> 0

\* C18: export_to_file streams: at every point of a call the rows of the
\* result it holds in memory and has not yet written to the file are at most
\* one batch, never the whole of a larger result.
ExportStreams == HeldUnwritten(exp) <= DefaultBatchSize

----------------------------------------------------------------------------
(* Jobs beside each other: claims C19 and C20 *)

\* C19: in every step, under any interleaving of the handlers and the tasks,
\* a registered job stays registered and its record changes only in a step
\* of its own background task: a step of another job's task, a submission,
\* a status query or a preview leaves every field of it as it was, and in
\* particular so once the job has left "starting".
OnlyOwnTaskWritesJob ==
    [][\A j \in DOMAIN ingestion_jobs :
           /\ j \in DOMAIN ingestion_jobs'
           /\ ingestion_jobs'[j] # ingestion_jobs[j] =>
                  /\ tasks'[j] # tasks[j]
                  /\ \A k \in DOMAIN tasks \ {j} : tasks'[k] = tasks[k]
                  /\ loop' = loop]_vars

\* C19's case: job 1 has left "starting" and is still running while job 2,
\* submitted after it, has run to its end with a different outcome.
OnlyOwnTaskWritesJobWitness ==
    /\ DOMAIN ingestion_jobs = {"1", "2"}
    /\ Status("1") = "processing"
    /\ tasks["1"].pc = "l220"
    /\ Status("2") = "failed"
    /\ "error" \in DOMAIN ingestion_jobs["2"]
    /\ "error" \notin DOMAIN ingestion_jobs["1"]

\* C20: every job has, once it is completed or failed, released the database
\* session and the file handles it opened.
SessionsReleasedAtExit ==
    \A j \in DOMAIN ingestion_jobs :
        Status(j) \in Terminal =>
            /\ tasks[j].session # "open"
            /\ tasks[j].files # "open"

----------------------------------------------------------------------------
(* The width of the inserted rows: claim C21 *)

\* C21: in every INSERT of an import each row of the batch has as many
\* values as the INSERT names columns, and as the table the import created
\* has columns, whatever the header and the selection, also for a selection
\* that names no column of the file.
RowsMatchColumnList ==
    \A p \in Statements(imp.calls, "INSERT") :
        \A i \in 1..Len(imp.calls[p].rows) :
            /\ Len(imp.calls[p].rows[i]) = Len(imp.calls[p].columns)
            /\ \A q \in Statements(imp.calls, "CREATE") :
                   imp.calls[q].ok =>
                       Len(imp.calls[p].rows[i]) = Len(imp.calls[q].columns)

----------------------------------------------------------------------------
(* The count a job reports: claim C22 *)

\* the statements of process_ingestion before a write of records_processed
BeforeCount == {"l190", "l191", "l220", "l249"}

\* C22: a job's records_processed is 0 as long as its transfer engine has not
\* returned and line 220 or 249 has not run; it is written by that line only,
\* once, with the count the engine returned; so every failed job reports 0,
\* also when batches were committed to the table before the failure.
RecordsProcessedWrittenOnce ==
    /\ [](\A job_id \in DOMAIN ingestion_jobs :
              /\ (tasks[job_id].pc \in BeforeCount \/ tasks[job_id].raised) =>
                     ingestion_jobs[job_id].records_processed = 0
              /\ Status(job_id) = "failed" =>
                     ingestion_jobs[job_id].records_processed = 0)
    /\ [][\A job_id \in DOMAIN ingestion_jobs :
               /\ (tasks[job_id].pc \notin {"l220", "l249"}
                      \/ tasks[job_id].engine # "returned") =>
                      ingestion_jobs'[job_id].records_processed =
                          ingestion_jobs[job_id].records_processed
               /\ tasks[job_id].pc \in {"l220", "l249"} =>
                      \/ tasks'[job_id] = tasks[job_id]
                      \/ /\ ingestion_jobs'[job_id].records_processed =
                                tasks[job_id].records_count
                         /\ tasks'[job_id].pc \notin BeforeCount
               /\ tasks[job_id].pc \notin BeforeCount =>
                      tasks'[job_id].pc \notin BeforeCount]_vars

\* C22's case: a job failed after its first batch was committed to the table,
\* and another job wrote the count its engine returned.
RecordsProcessedWrittenOnceWitness ==
    /\ \E job_id \in DOMAIN ingestion_jobs :
           /\ Status(job_id) = "failed"
           /\ tasks[job_id].pc = "done"
           /\ sinks[job_id].inserted # <<>>
           /\ ingestion_jobs[job_id].records_processed = 0
    /\ \E job_id \in DOMAIN ingestion_jobs :
           /\ Status(job_id) = "completed"
           /\ ingestion_jobs[job_id].records_processed > 0

=============================================================================
